---- MODULE Spec2Model ----
(***************************************************************************)
(* Model of Runner.Run (projector.go): the polling / checkpoint loop that  *)
(* alternates Source.Fetch, Apply and Source.Commit, with the idle wait    *)
(* and the context checks.  Every call to a collaborator is split into its *)
(* start (made by the step that reaches the call) and its return, so that  *)
(* the context can be cancelled while a call is in flight.                 *)
(***************************************************************************)
EXTENDS Integers, Sequences, FiniteSets, TLC

\* ---------------------------------------------------------------- bounds
\* loop iterations (Fetch calls) explored in one Run
MaxIters == 3
\* milliseconds by which one Tick advances the idle timer
Quantum == 100
\* events in the stream of the restart scenario
StreamLen == 3
\* Run invocations in the restart scenario
MaxRuns == 2

\* ------------------------------------------------------- program constants
\* (variant: the batch size the contributor notes give as the default)
DefaultBatchSizeNotes == 256

\* line 33
DefaultBatchSize == 512

\* (variant: the idle sleep the contributor notes give as the default)
DefaultIdleSleepNotes == 500

\* line 38, in milliseconds
DefaultIdleSleep == 200

\* ------------------------------------------------------------ value sets
Nil == "nil"
Cursors == {"", "c1"}
SourceErrors == {"E1", "E2"}
Batches == {<<>>, <<"e1">>, <<"e1", "e2">>}
\* BatchSize and IdleSleep: both left unset, or both set
Tunings == {[BatchSize |-> 0, IdleSleep |-> 0], [BatchSize |-> 2, IdleSleep |-> 100]}
MaxBatchesChoices == {0, 1, 2}
\* a Runner whose numeric fields are all below zero
NegativeConfig ==
    [Start |-> "c1", BatchSize |-> -1, IdleSleep |-> -100, MaxBatches |-> -1,
     Logger |-> TRUE]
\* the Runners explored
Configs ==
    {[Start |-> s, BatchSize |-> t.BatchSize, IdleSleep |-> t.IdleSleep,
      MaxBatches |-> m, Logger |-> l] :
        s \in Cursors, t \in Tunings, m \in MaxBatchesChoices, l \in BOOLEAN}
    \cup {NegativeConfig}
\* what Fetch may hand back next to an error: nothing, or a batch and a cursor
ErrorReturns == {<<<<>>, "">>, <<<<"e1">>, "c1">>}
\* what Fetch may hand back without an error: nothing, with either cursor, or
\* a batch of one or of two events, each with another cursor
OkReturns ==
    {<<<<>>, "">>, <<<<>>, "c1">>, <<<<"e1">>, "c1">>, <<<<"e1", "e2">>, "">>}
\* the (batch, next, err) triples Fetch may return
FetchReturns ==
    {x \in Batches \X Cursors \X (SourceErrors \cup {Nil}) :
        <<x[1], x[2]>> \in (IF x[3] = Nil THEN OkReturns ELSE ErrorReturns)}

VARIABLES
    r,          \* the Runner's fields (Logger: whether one is set)
    ctx,        \* the context passed to Run: "active", "canceled", "expired"
    startCtx,   \* the state the context was in when Run was called
    pc,         \* position of Run
    batchSize, idleSleep, cursor, batchCount,   \* locals of Run
    batch, next,                                \* results of the last Fetch
    elapsed,    \* time spent in the current idle wait (ms)
    result,     \* the value Run returned
    exit,       \* the return statement Run left through
    calls,      \* every Fetch/Apply/Commit call made, in order
    logs,       \* what the Logger received
    db,         \* the caller's database: checkpoint row and projected events
    runs,       \* Run invocations made so far by the caller
    prev,       \* how the caller's previous Run ended
    other       \* a second invocation of Run on the same Runner: its context,
                \* position, locals, result and calls while it is not running

\* what belongs to the caller of Run and outlives one invocation
env == <<db, runs, prev, other>>

vars == <<r, ctx, startCtx, pc, batchSize, idleSleep, cursor, batchCount,
          batch, next, elapsed, result, exit, calls, logs, db, runs, prev, other>>

\* ------------------------------------------------------------ the context
\* (variant: the Done channel is never seen closed)
CtxDoneNever(c) == FALSE

\* ctx.Done() is closed
CtxDone(c) == c # "active"

\* (variant: every stop through the context is reported as Canceled)
CtxErrAlwaysCanceled(c) == IF c = "active" THEN Nil ELSE "Canceled"

\* ctx.Err(): nil while active, then Canceled or DeadlineExceeded for good
CtxErr(c) ==
    IF c = "canceled" THEN "Canceled"
    ELSE IF c = "expired" THEN "DeadlineExceeded"
    ELSE Nil

\* ---------------------------------------------------------------- logging
\* (variant: r.Logger is called without asking whether one is set)
logfUnguarded(l, msg, kv) == Append(l, [msg |-> msg, kv |-> kv])

\* logf: forwards to r.Logger when one is set, otherwise does nothing
logf(l, msg, kv) ==
    IF r.Logger THEN Append(l, [msg |-> msg, kv |-> kv]) ELSE l

\* ------------------------------------------------------------- call trace
\* a call that has been started and has not returned yet
StartCall(op, cur, lim, b) ==
    [op |-> op, cursor |-> cur, limit |-> lim, batch |-> b,
     ctxAtStart |-> ctx, status |-> "inflight",
     err |-> Nil, retBatch |-> <<>>, retNext |-> ""]

\* the trace with its last call completed
ReturnCall(cs, st, e, rb, rn) ==
    [cs EXCEPT ![Len(cs)] =
        [@ EXCEPT !.status = st, !.err = e, !.retBatch = rb, !.retNext = rn]]

\* ------------------------------------------------- the pieces of the loop
\* (variant: Run starts from the beginning of the stream whatever Start is)
InitialCursorEmpty == ""

\* line 41: cursor := r.Start
InitialCursor == r.Start

\* (variant: the cap is taken to be reached one batch late)
LimitReachedLate == r.MaxBatches > 0 /\ batchCount > r.MaxBatches

\* (variant: the cap is compared without asking whether one is set)
LimitReachedUnguarded == batchCount >= r.MaxBatches

\* line 56: if r.MaxBatches > 0 && batchCount >= r.MaxBatches
LimitReached == r.MaxBatches > 0 /\ batchCount >= r.MaxBatches

\* (variant: Fetch is asked for what follows the last cursor Fetch returned)
FetchCallFromNext == StartCall("Fetch", next, batchSize, <<>>)

\* line 62: r.Source.Fetch(ctx, cursor, batchSize)
FetchCall == StartCall("Fetch", cursor, batchSize, <<>>)

\* (variant: Apply is handed the cursor the batch was fetched from)
ApplyCallOldCursor(b, n) == StartCall("Apply", cursor, 0, b)

\* line 85: r.Apply(ctx, batch, next)
ApplyCall(b, n) == StartCall("Apply", n, 0, b)

\* (variant: Commit is handed the cursor the batch was fetched from)
CommitCallOldCursor(n) == StartCall("Commit", cursor, 0, <<>>)

\* line 94: r.Source.Commit(ctx, next)
CommitCall(n) == StartCall("Commit", n, 0, <<>>)

\* (variant: a fetch error is not looked at)
FetchFailedIgnored(e) == FALSE

\* line 63: if err != nil, after Fetch
FetchFailed(e) == e # Nil

\* (variant: no batch is taken for an empty one)
IsEmptyNever(b) == FALSE

\* (variant: a batch of one event is taken for an empty one)
IsEmptyOffByOne(b) == Len(b) <= 1

\* line 69: if len(batch) == 0
IsEmpty(b) == Len(b) = 0

\* (variant: an apply error is not looked at)
ApplyFailedIgnored(e) == FALSE

\* line 86: if err != nil, after Apply
ApplyFailed(e) == e # Nil

\* (variant: a commit error is not looked at)
CommitFailedIgnored(e) == FALSE

\* line 95: if err != nil, after Commit
CommitFailed(e) == e # Nil

\* (variant: the cursor stays where it was when the batch is through)
AdvancedCursorStale == cursor

\* line 101: cursor = next
AdvancedCursor == next

\* (variant: once the context is done its error is returned in place of the
\* operation's)
ReturnedErrorPreferCtx(e) == IF CtxDone(ctx) THEN CtxErr(ctx) ELSE e

\* lines 65, 88, 97: return err
ReturnedError(e) == e

\* (variant: the counter counts the events of the batches)
AdvancedCountEvents == batchCount + Len(batch)

\* line 102: batchCount++
AdvancedCount == batchCount + 1

\* how a call that returned error value e is recorded
Status(e) == IF e = Nil THEN "ok" ELSE "err"

\* ------------------------------------------------------------ the caller
\* projection_checkpoints has no row for the projection
NoCheckpoint == "none"

\* the projection database before anything was projected
EmptyDb == [checkpoint |-> NoCheckpoint, applied |-> <<>>]

\* nothing ran before (fromCheckpoint: every Run so far, the one now running
\* included, was started with the cursor of the checkpoint table as Start)
NoPrev ==
    [exit |-> "none", cursor |-> "", batch |-> <<>>, next |-> "", how |-> "none",
     fromCheckpoint |-> TRUE]

\* an invocation of Run that has just been called
Fresh ==
    [ctx |-> "active", startCtx |-> "active", pc |-> "init", batchSize |-> 0,
     idleSleep |-> 0, cursor |-> "", batchCount |-> 0, batch |-> <<>>,
     next |-> "", elapsed |-> 0, result |-> Nil, exit |-> "none",
     calls |-> <<>>, logs |-> <<>>]

\* ----------------------------------------------------------------- Init
Init ==
    /\ r \in Configs
    /\ ctx = "active"
    /\ startCtx = "active"
    /\ pc = "init"
    /\ batchSize = 0
    /\ idleSleep = 0
    /\ cursor = ""
    /\ batchCount = 0
    /\ batch = <<>>
    /\ next = ""
    /\ elapsed = 0
    /\ result = Nil
    /\ exit = "none"
    /\ calls = <<>>
    /\ logs = <<>>
    /\ db = EmptyDb
    /\ runs = 1
    /\ prev = NoPrev
    /\ other = Fresh

\* --------------------------------------------------- the context's owner
\* cancel() is called
Cancel ==
    /\ ctx = "active"
    /\ pc # "done"
    /\ ctx' = "canceled"
    /\ UNCHANGED <<r, startCtx, pc, batchSize, idleSleep, cursor, batchCount,
                   batch, next, elapsed, result, exit, calls, logs>>

\* the context's deadline passes
DeadlineExpire ==
    /\ ctx = "active"
    /\ pc # "done"
    /\ ctx' = "expired"
    /\ UNCHANGED <<r, startCtx, pc, batchSize, idleSleep, cursor, batchCount,
                   batch, next, elapsed, result, exit, calls, logs>>

\* ------------------------------------------------------------------ Run
\* lines 30-44: defaults, cursor := r.Start, batchCount := 0
RunStart ==
    /\ pc = "init"
    /\ startCtx' = ctx
    /\ batchSize' = (IF r.BatchSize <= 0 THEN DefaultBatchSize ELSE r.BatchSize)
    /\ idleSleep' = (IF r.IdleSleep <= 0 THEN DefaultIdleSleep ELSE r.IdleSleep)
    /\ cursor' = InitialCursor
    /\ batchCount' = 0
    /\ logs' = logf(logs, "runner starting",
                    <<"batchSize", batchSize', "idleSleep", idleSleep',
                      "maxBatches", r.MaxBatches>>)
    /\ pc' = "top"
    /\ UNCHANGED <<r, ctx, batch, next, elapsed, result, exit, calls>>

\* (variant: the loop top does not look at the context)
CheckCtxSkipped ==
    /\ pc = "top"
    /\ pc' = "limit"
    /\ UNCHANGED <<r, ctx, startCtx, batchSize, idleSleep, cursor, batchCount,
                   batch, next, elapsed, result, exit, calls, logs>>

\* (variant: the cap is looked at before the context)
CheckCtxCapFirst ==
    /\ pc = "top"
    /\ IF LimitReached
       THEN /\ logs' = logf(logs, "runner stopped after reaching MaxBatches",
                            <<"maxBatches", r.MaxBatches, "processed", batchCount>>)
            /\ result' = Nil
            /\ exit' = "maxBatches"
            /\ pc' = "done"
       ELSE IF CtxDone(ctx)
       THEN /\ logs' = logf(logs, "runner stopped due to context cancellation", <<>>)
            /\ result' = CtxErr(ctx)
            /\ exit' = "ctxTop"
            /\ pc' = "done"
       ELSE /\ Len(SelectSeq(calls, LAMBDA c : c.op = "Fetch")) < MaxIters
            /\ pc' = "limit"
            /\ UNCHANGED <<logs, result, exit>>
    /\ UNCHANGED <<r, ctx, startCtx, batchSize, idleSleep, cursor, batchCount,
                   batch, next, elapsed, calls>>

\* lines 47-53: the non-blocking check of ctx.Done() at the loop top (an
\* iteration that would make one Fetch call more than MaxIters is not begun
\* while the context is active: the Run is left at the loop top, where a
\* cancellation still ends it)
CheckCtx ==
    /\ pc = "top"
    /\ IF CtxDone(ctx)
       THEN /\ logs' = logf(logs, "runner stopped due to context cancellation", <<>>)
            /\ result' = CtxErr(ctx)
            /\ exit' = "ctxTop"
            /\ pc' = "done"
       ELSE /\ LimitReached \/ Len(SelectSeq(calls, LAMBDA c : c.op = "Fetch")) < MaxIters
            /\ pc' = "limit"
            /\ UNCHANGED <<logs, result, exit>>
    /\ UNCHANGED <<r, ctx, startCtx, batchSize, idleSleep, cursor, batchCount,
                   batch, next, elapsed, calls>>

\* lines 55-62: the MaxBatches check, then the call of Source.Fetch
CheckMaxBatches ==
    /\ pc = "limit"
    /\ IF LimitReached
       THEN /\ logs' = logf(logs, "runner stopped after reaching MaxBatches",
                            <<"maxBatches", r.MaxBatches, "processed", batchCount>>)
            /\ result' = Nil
            /\ exit' = "maxBatches"
            /\ pc' = "done"
            /\ UNCHANGED calls
       ELSE /\ Len(SelectSeq(calls, LAMBDA c : c.op = "Fetch")) < MaxIters
            /\ calls' = Append(calls, FetchCall)
            /\ pc' = "fetch"
            /\ UNCHANGED <<logs, result, exit>>
    /\ UNCHANGED <<r, ctx, startCtx, batchSize, idleSleep, cursor, batchCount,
                   batch, next, elapsed>>

\* lines 62-85: Source.Fetch returns one of the triples of S; on a non-empty
\* batch Apply is called
FetchReturnFrom(S) ==
    /\ pc = "fetch"
    /\ \E x \in S :
         LET b == x[1]
             n == x[2]
             e == x[3]
             returned == ReturnCall(calls, Status(e), e, b, n) IN
         IF FetchFailed(e)
         THEN /\ calls' = returned
              /\ logs' = logf(logs, "fetch error", <<"error", e>>)
              /\ result' = ReturnedError(e)
              /\ exit' = "fetchErr"
              /\ pc' = "done"
              /\ UNCHANGED <<batch, next, elapsed>>
         ELSE IF IsEmpty(b)
         THEN /\ calls' = returned
              /\ logs' = logf(logs, "no events fetched, sleeping",
                              <<"idleSleep", idleSleep>>)
              /\ batch' = b
              /\ next' = n
              /\ elapsed' = 0
              /\ pc' = "sleep"
              /\ UNCHANGED <<result, exit>>
         ELSE /\ calls' = Append(returned, ApplyCall(b, n))
              /\ logs' = logf(logs, "fetched batch", <<"eventCount", Len(b)>>)
              /\ batch' = b
              /\ next' = n
              /\ pc' = "apply"
              /\ UNCHANGED <<result, exit, elapsed>>
    /\ UNCHANGED <<r, ctx, startCtx, batchSize, idleSleep, cursor, batchCount>>

\* lines 62-85 with a source that may return anything
FetchReturn == FetchReturnFrom(FetchReturns)

\* time passes while Run is blocked in the select of lines 72-78
Tick ==
    /\ pc = "sleep"
    /\ elapsed < idleSleep
    /\ elapsed' = elapsed + Quantum
    /\ UNCHANGED <<r, ctx, startCtx, pc, batchSize, idleSleep, cursor,
                   batchCount, batch, next, result, exit, calls, logs>>

\* (variant: the return from the idle wait is not logged)
IdleCtxDoneSilent ==
    /\ pc = "sleep"
    /\ CtxDone(ctx)
    /\ result' = CtxErr(ctx)
    /\ exit' = "ctxIdle"
    /\ pc' = "done"
    /\ UNCHANGED <<r, ctx, startCtx, batchSize, idleSleep, cursor, batchCount,
                   batch, next, elapsed, calls, logs>>

\* (variant: the idle wait looks at the context only once the timer is through)
IdleCtxDoneAfterTimer ==
    /\ pc = "sleep"
    /\ CtxDone(ctx)
    /\ elapsed >= idleSleep
    /\ logs' = logf(logs, "runner stopped due to context cancellation during idle sleep", <<>>)
    /\ result' = CtxErr(ctx)
    /\ exit' = "ctxIdle"
    /\ pc' = "done"
    /\ UNCHANGED <<r, ctx, startCtx, batchSize, idleSleep, cursor, batchCount,
                   batch, next, elapsed, calls>>

\* lines 73-75: the select takes the ctx.Done() branch
IdleCtxDone ==
    /\ pc = "sleep"
    /\ CtxDone(ctx)
    /\ logs' = logf(logs, "runner stopped due to context cancellation during idle sleep", <<>>)
    /\ result' = CtxErr(ctx)
    /\ exit' = "ctxIdle"
    /\ pc' = "done"
    /\ UNCHANGED <<r, ctx, startCtx, batchSize, idleSleep, cursor, batchCount,
                   batch, next, elapsed, calls>>

\* (variant: an iteration that found nothing counts as a batch)
IdleTimerCounting ==
    /\ pc = "sleep"
    /\ elapsed >= idleSleep
    /\ pc' = "top"
    /\ batchCount' = batchCount + 1
    /\ UNCHANGED <<r, ctx, startCtx, batchSize, idleSleep, cursor,
                   batch, next, elapsed, result, exit, calls, logs>>

\* (variant: the timer branch is taken before the timer has run out)
IdleTimerAtOnce ==
    /\ pc = "sleep"
    /\ pc' = "top"
    /\ UNCHANGED <<r, ctx, startCtx, batchSize, idleSleep, cursor, batchCount,
                   batch, next, elapsed, result, exit, calls, logs>>

\* lines 76-79: the select takes the time.After(idleSleep) branch; continue
IdleTimer ==
    /\ pc = "sleep"
    /\ elapsed >= idleSleep
    /\ pc' = "top"
    /\ UNCHANGED <<r, ctx, startCtx, batchSize, idleSleep, cursor, batchCount,
                   batch, next, elapsed, result, exit, calls, logs>>

\* lines 85-94: Apply returns; on success Source.Commit is called
ApplyReturn ==
    /\ pc = "apply"
    /\ \E e \in SourceErrors \cup {Nil} :
         LET returned == ReturnCall(calls, Status(e), e, <<>>, "") IN
         IF ApplyFailed(e)
         THEN /\ calls' = returned
              /\ logs' = logf(logs, "apply error",
                              <<"error", e, "eventCount", Len(batch)>>)
              /\ result' = ReturnedError(e)
              /\ exit' = "applyErr"
              /\ pc' = "done"
         ELSE /\ calls' = Append(returned, CommitCall(next))
              /\ logs' = logf(logs, "applied batch successfully",
                              <<"eventCount", Len(batch)>>)
              /\ pc' = "commit"
              /\ UNCHANGED <<result, exit>>
    /\ UNCHANGED <<r, ctx, startCtx, batchSize, idleSleep, cursor, batchCount,
                   batch, next, elapsed>>

\* (variant: the cursor reached is written back into the Runner's Start)
CommitReturnMovingStart ==
    /\ pc = "commit"
    /\ \E e \in SourceErrors \cup {Nil} :
         LET returned == ReturnCall(calls, Status(e), e, <<>>, "") IN
         IF CommitFailed(e)
         THEN /\ calls' = returned
              /\ logs' = logf(logs, "commit error", <<"error", e>>)
              /\ result' = ReturnedError(e)
              /\ exit' = "commitErr"
              /\ pc' = "done"
              /\ UNCHANGED <<r, cursor, batchCount>>
         ELSE /\ calls' = returned
              /\ cursor' = AdvancedCursor
              /\ r' = [r EXCEPT !.Start = next]
              /\ batchCount' = AdvancedCount
              /\ logs' = logf(logs, "batch processed",
                              <<"batchCount", batchCount', "cursorAdvanced", TRUE>>)
              /\ pc' = "top"
              /\ UNCHANGED <<result, exit>>
    /\ UNCHANGED <<ctx, startCtx, batchSize, idleSleep, batch, next, elapsed>>

\* lines 94-104: Source.Commit returns; on success the cursor advances
CommitReturn ==
    /\ pc = "commit"
    /\ \E e \in SourceErrors \cup {Nil} :
         LET returned == ReturnCall(calls, Status(e), e, <<>>, "") IN
         IF CommitFailed(e)
         THEN /\ calls' = returned
              /\ logs' = logf(logs, "commit error", <<"error", e>>)
              /\ result' = ReturnedError(e)
              /\ exit' = "commitErr"
              /\ pc' = "done"
              /\ UNCHANGED <<cursor, batchCount>>
         ELSE /\ calls' = returned
              /\ cursor' = AdvancedCursor
              /\ batchCount' = AdvancedCount
              /\ logs' = logf(logs, "batch processed",
                              <<"batchCount", batchCount', "cursorAdvanced", TRUE>>)
              /\ pc' = "top"
              /\ UNCHANGED <<result, exit>>
    /\ UNCHANGED <<r, ctx, startCtx, batchSize, idleSleep, batch, next, elapsed>>

Next ==
    \/ Cancel /\ UNCHANGED env
    \/ DeadlineExpire /\ UNCHANGED env
    \/ RunStart /\ UNCHANGED env
    \/ CheckCtx /\ UNCHANGED env
    \/ CheckMaxBatches /\ UNCHANGED env
    \/ FetchReturn /\ UNCHANGED env
    \/ Tick /\ UNCHANGED env
    \/ IdleCtxDone /\ UNCHANGED env
    \/ IdleTimer /\ UNCHANGED env
    \/ ApplyReturn /\ UNCHANGED env
    \/ CommitReturn /\ UNCHANGED env

Spec == Init /\ [][Next]_vars

\* ------------------------------------------------- the restart scenario
\* The caller of the example: it loads the cursor from its checkpoint table,
\* runs the Runner against a source that keeps the Fetch contract, projects
\* each batch and saves 'next' in one transaction, and when Run has returned
\* it starts over.

\* the i-th event of the stream, and the cursor just after it ("" before all)
EventName(i) == "e" \o ToString(i)
CursorName(i) == IF i = 0 THEN "" ELSE "c" \o ToString(i)
\* the stream: its events, the cursors between them, and where each cursor is
StreamEvents == [i \in 1..StreamLen |-> EventName(i)]
StreamCursors == [i \in 0..StreamLen |-> CursorName(i)]
StreamPositions ==
    [c \in {StreamCursors[i] : i \in 0..StreamLen} |->
        CHOOSE i \in 0..StreamLen : StreamCursors[i] = c]
Event(i) == IF i \in 1..StreamLen THEN StreamEvents[i] ELSE EventName(i)
CursorAt(i) == IF i \in 0..StreamLen THEN StreamCursors[i] ELSE CursorName(i)
Pos(c) == StreamPositions[c]

\* Fetch(ctx, c, limit) of a source that keeps its contract: up to limit events
\* strictly after c, in stream order, with the cursor after the last of them
\* (none of them, with c itself, when the source has nothing new yet), or an
\* error
StreamReturns(c, limit) ==
    LET avail == StreamLen - Pos(c)
        most == IF limit < avail THEN limit ELSE avail
    IN  {<<[i \in 1..k |-> Event(Pos(c) + i)], CursorAt(Pos(c) + k), Nil>> : k \in 0..most}
        \cup {<<<<>>, "", e>> : e \in SourceErrors}

\* lines 62-85 with the source of the restart scenario
StreamFetchReturn ==
    FetchReturnFrom(StreamReturns(calls[Len(calls)].cursor, calls[Len(calls)].limit))

\* loadCursor: the saved cursor, or the empty cursor when there is no row
LoadCursor(d) == IF d.checkpoint = NoCheckpoint THEN "" ELSE d.checkpoint

\* (variant: the projection is written but the cursor is not saved with it)
SaveProjectionOnly(d, b, n, e) ==
    IF e = Nil THEN [checkpoint |-> d.checkpoint, applied |-> d.applied \o b] ELSE d

\* (variant: the transaction keeps what it wrote although Apply fails)
SaveAlways(d, b, n, e) == [checkpoint |-> n, applied |-> d.applied \o b]

\* createApplyFunc: the events of the batch are projected and 'next' is saved
\* in one transaction; it is committed when Apply returns nil and rolled back
\* when Apply returns an error
Save(d, b, n, e) ==
    IF e = Nil THEN [checkpoint |-> n, applied |-> d.applied \o b] ELSE d

\* lines 85-94, with the Apply of the example
TxApplyReturn ==
    /\ ApplyReturn
    /\ LET a == IF pc' = "commit" THEN Len(calls') - 1 ELSE Len(calls')
       IN  db' = Save(db, calls'[a].batch, calls'[a].cursor, calls'[a].err)
    /\ UNCHANGED <<runs, prev, other>>

\* what the caller remembers of the Run that just returned, when the next Run
\* is started with Start = start
Ended(how, start) ==
    [exit |-> exit, cursor |-> cursor, batch |-> batch, next |-> next, how |-> how,
     fromCheckpoint |-> prev.fromCheckpoint /\ start = LoadCursor(db)]

\* the caller starts over: Start is loaded from the checkpoint table
RestartReload ==
    /\ pc = "done"
    /\ runs < MaxRuns
    /\ runs' = runs + 1
    /\ prev' = Ended("reload", LoadCursor(db))
    /\ r' = [r EXCEPT !.Start = LoadCursor(db)]
    /\ ctx' = "active"
    /\ startCtx' = "active"
    /\ pc' = "init"
    /\ batchSize' = 0
    /\ idleSleep' = 0
    /\ cursor' = ""
    /\ batchCount' = 0
    /\ batch' = <<>>
    /\ next' = ""
    /\ elapsed' = 0
    /\ result' = Nil
    /\ exit' = "none"
    /\ calls' = <<>>
    /\ logs' = <<>>
    /\ UNCHANGED <<db, other>>

\* the caller calls Run again on the same Runner, Start as it was
RestartSame ==
    /\ pc = "done"
    /\ runs < MaxRuns
    /\ runs' = runs + 1
    /\ prev' = Ended("same", r.Start)
    /\ ctx' = "active"
    /\ startCtx' = "active"
    /\ pc' = "init"
    /\ batchSize' = 0
    /\ idleSleep' = 0
    /\ cursor' = ""
    /\ batchCount' = 0
    /\ batch' = <<>>
    /\ next' = ""
    /\ elapsed' = 0
    /\ result' = Nil
    /\ exit' = "none"
    /\ calls' = <<>>
    /\ logs' = <<>>
    /\ UNCHANGED <<r, db, other>>

\* the Runners of the restart scenario: Start loaded from an empty database,
\* batches of at most two events without a cap, or a cap of one batch with
\* either batch size
RestartConfigs ==
    {[Start |-> LoadCursor(EmptyDb), BatchSize |-> x[1], IdleSleep |-> 100,
      MaxBatches |-> x[2], Logger |-> FALSE] : x \in {<<2, 0>>, <<0, 1>>, <<2, 1>>}}

InitRestart ==
    /\ r \in RestartConfigs
    /\ ctx = "active"
    /\ startCtx = "active"
    /\ pc = "init"
    /\ batchSize = 0
    /\ idleSleep = 0
    /\ cursor = ""
    /\ batchCount = 0
    /\ batch = <<>>
    /\ next = ""
    /\ elapsed = 0
    /\ result = Nil
    /\ exit = "none"
    /\ calls = <<>>
    /\ logs = <<>>
    /\ db = EmptyDb
    /\ runs = 1
    /\ prev = NoPrev
    /\ other = Fresh

NextRestart ==
    \/ Cancel /\ UNCHANGED env
    \/ RunStart /\ UNCHANGED env
    \/ CheckCtx /\ UNCHANGED env
    \/ CheckMaxBatches /\ UNCHANGED env
    \/ StreamFetchReturn /\ UNCHANGED env
    \/ Tick /\ UNCHANGED env
    \/ IdleCtxDone /\ UNCHANGED env
    \/ IdleTimer /\ UNCHANGED env
    \/ TxApplyReturn
    \/ CommitReturn /\ UNCHANGED env
    \/ RestartReload
    \/ RestartSame

SpecRestart == InitRestart /\ [][NextRestart]_vars

\* ------------------------------------------- two invocations of one Runner
\* Two goroutines call Run on the same Runner, each with its own context, and
\* the scheduler interleaves them.  The variables hold the invocation that is
\* running and 'other' holds the one that is not.

\* the invocation that is running, as it is kept while the other one runs
Parked ==
    [ctx |-> ctx, startCtx |-> startCtx, pc |-> pc, batchSize |-> batchSize,
     idleSleep |-> idleSleep, cursor |-> cursor, batchCount |-> batchCount,
     batch |-> batch, next |-> next, elapsed |-> elapsed, result |-> result,
     exit |-> exit, calls |-> calls, logs |-> logs]

\* (variant: cursor and batchCount are kept in the Runner, not in the invocation)
SwitchSharedCursor ==
    /\ other' = [Parked EXCEPT !.cursor = other.cursor, !.batchCount = other.batchCount]
    /\ ctx' = other.ctx
    /\ startCtx' = other.startCtx
    /\ pc' = other.pc
    /\ batchSize' = other.batchSize
    /\ idleSleep' = other.idleSleep
    /\ batch' = other.batch
    /\ next' = other.next
    /\ elapsed' = other.elapsed
    /\ result' = other.result
    /\ exit' = other.exit
    /\ calls' = other.calls
    /\ logs' = other.logs
    /\ UNCHANGED <<r, cursor, batchCount, db, runs, prev>>

\* lines 29-42: the scheduler passes from one invocation to the other; every
\* local of Run (batchSize, idleSleep, cursor, batchCount, batch, next, err)
\* belongs to the invocation, only the Runner r is common to both
Switch ==
    /\ other' = Parked
    /\ ctx' = other.ctx
    /\ startCtx' = other.startCtx
    /\ pc' = other.pc
    /\ batchSize' = other.batchSize
    /\ idleSleep' = other.idleSleep
    /\ cursor' = other.cursor
    /\ batchCount' = other.batchCount
    /\ batch' = other.batch
    /\ next' = other.next
    /\ elapsed' = other.elapsed
    /\ result' = other.result
    /\ exit' = other.exit
    /\ calls' = other.calls
    /\ logs' = other.logs
    /\ UNCHANGED <<r, db, runs, prev>>

\* Fetch(ctx, c, limit) of a read-only source whose stream does not change:
\* the events after c, up to limit of them, with the cursor after the last
FixedStreamReturns(c, limit) ==
    LET avail == StreamLen - Pos(c)
        most == IF limit < avail THEN limit ELSE avail
    IN  {<<[i \in 1..most |-> Event(Pos(c) + i)], CursorAt(Pos(c) + most), Nil>>}

\* lines 62-85 with that source
FixedFetchReturn ==
    FetchReturnFrom(FixedStreamReturns(calls[Len(calls)].cursor, calls[Len(calls)].limit))

\* the Runners of this scenario
TwoConfigs ==
    {[Start |-> s, BatchSize |-> b, IdleSleep |-> 100, MaxBatches |-> m,
      Logger |-> FALSE] : s \in {"", "c1"}, b \in {0, 2}, m \in {0, 1}}

InitTwo ==
    /\ r \in TwoConfigs
    /\ ctx = "active"
    /\ startCtx = "active"
    /\ pc = "init"
    /\ batchSize = 0
    /\ idleSleep = 0
    /\ cursor = ""
    /\ batchCount = 0
    /\ batch = <<>>
    /\ next = ""
    /\ elapsed = 0
    /\ result = Nil
    /\ exit = "none"
    /\ calls = <<>>
    /\ logs = <<>>
    /\ db = EmptyDb
    /\ runs = 1
    /\ prev = NoPrev
    /\ other = Fresh

NextTwo ==
    \/ Cancel /\ UNCHANGED env
    \/ RunStart /\ UNCHANGED env
    \/ CheckCtx /\ UNCHANGED env
    \/ CheckMaxBatches /\ UNCHANGED env
    \/ FixedFetchReturn /\ UNCHANGED env
    \/ Tick /\ UNCHANGED env
    \/ IdleCtxDone /\ UNCHANGED env
    \/ IdleTimer /\ UNCHANGED env
    \/ ApplyReturn /\ UNCHANGED env
    \/ CommitReturn /\ UNCHANGED env
    \/ Switch

SpecTwo == InitTwo /\ [][NextTwo]_vars

\* ------------------------------------------- with and without a Logger
\* The same Runner is run twice, once with a Logger set and once with Logger
\* nil, against a read-only source whose Fetch may fail;
\* the two Runs advance in any order.  The variables hold one Run with its
\* Runner, 'other' holds the other Run, whose Runner differs in Logger only.

\* the Run in 'other' is taken up and the one that was running is put aside
SwitchTwin ==
    /\ other' = Parked
    /\ r' = [r EXCEPT !.Logger = ~r.Logger]
    /\ ctx' = other.ctx
    /\ startCtx' = other.startCtx
    /\ pc' = other.pc
    /\ batchSize' = other.batchSize
    /\ idleSleep' = other.idleSleep
    /\ cursor' = other.cursor
    /\ batchCount' = other.batchCount
    /\ batch' = other.batch
    /\ next' = other.next
    /\ elapsed' = other.elapsed
    /\ result' = other.result
    /\ exit' = other.exit
    /\ calls' = other.calls
    /\ logs' = other.logs
    /\ UNCHANGED <<db, runs, prev>>

\* lines 62-85 with a read-only source whose stream does not change and whose
\* Fetch may fail
FailingFetchReturn ==
    FetchReturnFrom(
        FixedStreamReturns(calls[Len(calls)].cursor, calls[Len(calls)].limit)
        \cup {<<<<>>, "", e>> : e \in SourceErrors})

\* the Runners of this scenario, Logger set in the Run that is first to move
TwinConfigs ==
    {[Start |-> "", BatchSize |-> 2, IdleSleep |-> 100, MaxBatches |-> m,
      Logger |-> TRUE] : m \in {0, 1}}

InitTwin ==
    /\ r \in TwinConfigs
    /\ ctx = "active"
    /\ startCtx = "active"
    /\ pc = "init"
    /\ batchSize = 0
    /\ idleSleep = 0
    /\ cursor = ""
    /\ batchCount = 0
    /\ batch = <<>>
    /\ next = ""
    /\ elapsed = 0
    /\ result = Nil
    /\ exit = "none"
    /\ calls = <<>>
    /\ logs = <<>>
    /\ db = EmptyDb
    /\ runs = 1
    /\ prev = NoPrev
    /\ other = Fresh

NextTwin ==
    \/ Cancel /\ UNCHANGED env
    \/ RunStart /\ UNCHANGED env
    \/ CheckCtx /\ UNCHANGED env
    \/ CheckMaxBatches /\ UNCHANGED env
    \/ FailingFetchReturn /\ UNCHANGED env
    \/ Tick /\ UNCHANGED env
    \/ IdleCtxDone /\ UNCHANGED env
    \/ IdleTimer /\ UNCHANGED env
    \/ ApplyReturn /\ UNCHANGED env
    \/ CommitReturn /\ UNCHANGED env
    \/ SwitchTwin

SpecTwin == InitTwin /\ [][NextTwin]_vars

\* ------------------------------------------------------------- progress
\* The Run under the scheduling the program can count on: the goroutine of
\* Run keeps being scheduled, every call of Fetch, Apply and Commit that is in
\* flight returns, time passes while Run waits, and a select with a ready
\* branch takes one.  Nothing obliges the owner of the context to cancel it.

\* the Runners of this scenario
LiveConfigs ==
    {[Start |-> "", BatchSize |-> t.BatchSize, IdleSleep |-> t.IdleSleep,
      MaxBatches |-> m, Logger |-> FALSE] : t \in Tunings, m \in MaxBatchesChoices}

InitLive ==
    /\ r \in LiveConfigs
    /\ ctx = "active"
    /\ startCtx = "active"
    /\ pc = "init"
    /\ batchSize = 0
    /\ idleSleep = 0
    /\ cursor = ""
    /\ batchCount = 0
    /\ batch = <<>>
    /\ next = ""
    /\ elapsed = 0
    /\ result = Nil
    /\ exit = "none"
    /\ calls = <<>>
    /\ logs = <<>>
    /\ db = EmptyDb
    /\ runs = 1
    /\ prev = NoPrev
    /\ other = Fresh

Fairness ==
    /\ WF_vars(RunStart /\ UNCHANGED env)
    /\ WF_vars(CheckCtx /\ UNCHANGED env)
    /\ WF_vars(CheckMaxBatches /\ UNCHANGED env)
    /\ WF_vars(FetchReturn /\ UNCHANGED env)
    /\ WF_vars(Tick /\ UNCHANGED env)
    /\ WF_vars((IdleCtxDone \/ IdleTimer) /\ UNCHANGED env)
    /\ WF_vars(ApplyReturn /\ UNCHANGED env)
    /\ WF_vars(CommitReturn /\ UNCHANGED env)

SpecLive == InitLive /\ [][Next]_vars /\ Fairness

\* ------------------------------------------------- reading the call trace
Calls(op) == {k \in 1..Len(calls) : calls[k].op = op}
Failures == {k \in 1..Len(calls) : calls[k].status = "err"}
AfterCancel == {k \in 1..Len(calls) : calls[k].ctxAtStart # "active"}

\* the Fetch calls that delivered a non-empty batch, and the Apply calls
Delivered ==
    SelectSeq(calls, LAMBDA c : c.op = "Fetch" /\ c.status = "ok" /\ c.retBatch # <<>>)
Applied == SelectSeq(calls, LAMBDA c : c.op = "Apply")

\* C1: every Apply call receives exactly the batch and the nextCursor that the
\* Fetch call right before it returned, and the Apply calls are, in order, the
\* non-empty batches that were fetched: none skipped, none reordered.
C1_ApplyGetsFetched ==
    LET A == Applied
        D == Delivered
    IN  /\ \A k \in 1..Len(calls) :
              calls[k].op = "Apply" =>
                  /\ k > 1
                  /\ calls[k-1].op = "Fetch"
                  /\ calls[k-1].status = "ok"
                  /\ calls[k].batch = calls[k-1].retBatch
                  /\ calls[k].cursor = calls[k-1].retNext
        /\ Len(A) = Len(D)
        /\ \A i \in 1..Len(A) :
              /\ A[i].batch = D[i].retBatch
              /\ A[i].cursor = D[i].retNext

\* two batches were applied, the second with another batch and another cursor
\* than the first, fetched from a cursor different from the one it returned
C1_Witness ==
    /\ Len(Applied) >= 2
    /\ Applied[1].batch # Applied[2].batch
    /\ Applied[1].cursor # Applied[2].cursor
    /\ \E k \in Calls("Apply") : calls[k].cursor # calls[k-1].cursor

\* C2: once Fetch has returned a non-empty batch without error, the next call
\* is Apply with that batch, and it is the only Apply call before the next
\* Fetch: any later Apply comes right after a later Fetch.
C2_ApplyOnceBeforeNextFetch ==
    \A k \in 1..Len(calls) :
        (calls[k].op = "Fetch" /\ calls[k].status = "ok" /\ calls[k].retBatch # <<>>) =>
            /\ k < Len(calls)
            /\ calls[k+1].op = "Apply"
            /\ calls[k+1].batch = calls[k].retBatch
            /\ \A j \in (k+2)..Len(calls) :
                  calls[j].op = "Apply" => calls[j-1].op = "Fetch"

\* a Fetch delivered a one-event batch and a later Fetch was made
C2_Witness ==
    \E k \in Calls("Fetch"), j \in Calls("Fetch") :
        /\ j > k
        /\ calls[k].status = "ok"
        /\ Len(calls[k].retBatch) = 1

\* C3: an Apply call that returned an error is the last call of the Run (no
\* Commit follows it) and Run has returned exactly that error.
C3_ApplyErrorStops ==
    \A k \in 1..Len(calls) :
        (calls[k].op = "Apply" /\ calls[k].status = "err") =>
            /\ k = Len(calls)
            /\ pc = "done"
            /\ result = calls[k].err

\* Apply failed with E2 on the second batch of the Run
C3_Witness ==
    /\ Len(Applied) = 2
    /\ calls[Len(calls)].op = "Apply"
    /\ calls[Len(calls)].err = "E2"

\* C4: a Commit call that returned an error is the last call of the Run, Run
\* has returned exactly that error, and the call right before it is the one
\* Apply call of that batch (after its Fetch), which succeeded.
C4_CommitErrorStops ==
    \A k \in 1..Len(calls) :
        (calls[k].op = "Commit" /\ calls[k].status = "err") =>
            /\ k = Len(calls)
            /\ pc = "done"
            /\ result = calls[k].err
            /\ k > 2
            /\ calls[k-1].op = "Apply"
            /\ calls[k-1].status = "ok"
            /\ calls[k-1].cursor = calls[k].cursor
            /\ calls[k-2].op = "Fetch"
            /\ calls[k-2].retBatch = calls[k-1].batch

\* Commit failed with E1 on the second batch of the Run
C4_Witness ==
    /\ Cardinality(Calls("Commit")) = 2
    /\ calls[Len(calls)].op = "Commit"
    /\ calls[Len(calls)].err = "E1"

\* C5: a Fetch call that returned an error is the last call of the Run and Run
\* has returned exactly that error; when it is the first call, Apply and
\* Commit were never called.
C5_FetchErrorStops ==
    \A k \in 1..Len(calls) :
        (calls[k].op = "Fetch" /\ calls[k].status = "err") =>
            /\ k = Len(calls)
            /\ pc = "done"
            /\ result = calls[k].err
            /\ (k = 1 => Calls("Apply") = {} /\ Calls("Commit") = {})

\* the first Fetch failed with E1 although it came with a non-empty batch
C5_Witness ==
    /\ Len(calls) = 1
    /\ calls[1].op = "Fetch"
    /\ calls[1].err = "E1"
    /\ calls[1].retBatch # <<>>

\* C6: at most one call of a Run returns an error, that call is the last call
\* of the Run, and Run has returned.
C6_NoRetry ==
    /\ Cardinality(Failures) <= 1
    /\ \A k \in Failures : k = Len(calls) /\ pc = "done" /\ exit # "none"

\* a call failed after at least one batch had gone through
C6_Witness ==
    /\ Failures # {}
    /\ batchCount >= 1

\* C7 as stated: no call is started once the context is cancelled, and a Run
\* that returns after the cancellation returns the context's error.
C7_NoCallAfterCancel ==
    /\ AfterCancel = {}
    /\ (pc = "done" /\ ctx # "active") => result \in {"Canceled", "DeadlineExceeded"}

\* C7 amended: once the context is cancelled, Run starts at most one more
\* Fetch, one more Apply and one more Commit (those of the iteration in
\* progress), and when it returns it returns the context's error unless one of
\* its calls failed (that error is returned) or the batch cap was reached
\* right after a loop-top check that still saw the context active (nil).
C7_AtMostOneRoundAfterCancel ==
    /\ \A op \in {"Fetch", "Apply", "Commit"} :
          Cardinality(AfterCancel \cap Calls(op)) <= 1
    /\ \A k \in AfterCancel : \A j \in k..Len(calls) : j \in AfterCancel
    /\ (pc = "done" /\ ctx # "active") =>
          \/ /\ exit \in {"ctxTop", "ctxIdle"}
             /\ result = (IF ctx = "canceled" THEN "Canceled" ELSE "DeadlineExceeded")
          \/ /\ exit \in {"fetchErr", "applyErr", "commitErr"}
             /\ Failures = {Len(calls)}
             /\ result = calls[Len(calls)].err
          \/ /\ exit = "maxBatches"
             /\ result = Nil
             /\ r.MaxBatches > 0
             /\ batchCount >= r.MaxBatches

\* the context was cancelled while a Fetch was in flight, the batch was still
\* applied and committed, and Run then returned the context's error
C7_Witness ==
    /\ pc = "done"
    /\ exit = "ctxTop"
    /\ \E k \in Calls("Fetch") :
          /\ calls[k].ctxAtStart = "active"
          /\ k + 2 = Len(calls)
          /\ {k + 1, k + 2} \subseteq AfterCancel

\* C8: a Run that stopped at one of its two context checks returned the
\* context's own error: Canceled for a cancelled context, DeadlineExceeded for
\* an expired one, never nil.
C8_ContextErrorPreserved ==
    (pc = "done" /\ exit \in {"ctxTop", "ctxIdle"}) =>
        /\ ctx # "active"
        /\ (ctx = "canceled" => result = "Canceled")
        /\ (ctx = "expired" => result = "DeadlineExceeded")
        /\ result # Nil

\* Run stopped in the idle wait on an expired deadline
C8_Witness ==
    /\ pc = "done"
    /\ exit = "ctxIdle"
    /\ ctx = "expired"
    /\ result = "DeadlineExceeded"

\* C9: when the context was already cancelled or expired at the call of Run, no
\* Fetch, Apply or Commit call is ever made, and Run returns through the
\* loop-top check with the context's error.
C9_CancelledBeforeRun ==
    startCtx # "active" =>
        /\ calls = <<>>
        /\ pc \in {"top", "done"}
        /\ (pc = "done" =>
              /\ exit = "ctxTop"
              /\ result = (IF startCtx = "canceled" THEN "Canceled"
                           ELSE "DeadlineExceeded"))

\* Run was called with an expired context and has returned
C9_Witness ==
    /\ startCtx = "expired"
    /\ pc = "done"
    /\ result = "DeadlineExceeded"
    /\ r.MaxBatches = 0

\* C10: while Run is in the idle wait and the context is cancelled, the return
\* through the context branch is possible at once, whatever is left of
\* IdleSleep; and from there on (in the wait, or at the loop top if the timer
\* branch was taken) no call is made and Run can only return the context's
\* error.
C10_CancelDuringIdle ==
    /\ [](pc = "sleep" /\ ctx # "active" => ENABLED IdleCtxDone)
    /\ [][(ctx # "active" /\ pc \in {"sleep", "top"}) =>
             /\ calls' = calls
             /\ pc' \in {"sleep", "top", "done"}
             /\ (pc' = "done" =>
                   result' = (IF ctx = "canceled" THEN "Canceled"
                              ELSE "DeadlineExceeded"))]_vars

\* Run returned from the idle wait on a cancellation before any of the
\* IdleSleep had passed
C10_Witness ==
    /\ pc = "done"
    /\ exit = "ctxIdle"
    /\ ctx = "canceled"
    /\ elapsed = 0
    /\ idleSleep > 0
    /\ calls[Len(calls)].op = "Fetch"

\* ------------------------------------------------ more on the call trace
\* the last of a non-empty set of positions
Last(S) == CHOOSE j \in S : \A i \in S : i <= j

\* the calls of one kind that returned without error
Succeeded(op) == SelectSeq(calls, LAMBDA c : c.op = op /\ c.status = "ok")

\* the effective settings of lines 30-39, written out
EffectiveBatchSize == IF r.BatchSize > 0 THEN r.BatchSize ELSE 512
EffectiveIdleSleep == IF r.IdleSleep > 0 THEN r.IdleSleep ELSE 200

\* C11: a Fetch that follows a Fetch which returned an empty batch is made
\* with the same cursor, whatever nextCursor came with the empty batch; while
\* Run waits after an empty batch its cursor is still the one it fetched with;
\* and as long as no batch was delivered every Fetch receives Start.
C11_EmptyFetchKeepsCursor ==
    /\ \A k \in 2..Len(calls) :
          (/\ calls[k].op = "Fetch"
           /\ calls[k-1].op = "Fetch"
           /\ calls[k-1].status = "ok"
           /\ calls[k-1].retBatch = <<>>) => calls[k].cursor = calls[k-1].cursor
    /\ pc = "sleep" => cursor = calls[Len(calls)].cursor
    /\ (\A k \in 1..Len(calls) : calls[k].op = "Fetch") =>
          \A k \in 1..Len(calls) : calls[k].cursor = r.Start

\* three Fetch calls in a row, the first two answered with an empty batch and
\* a nextCursor other than the cursor asked for
C11_Witness ==
    /\ Len(calls) = 3
    /\ \A k \in 1..3 : calls[k].op = "Fetch"
    /\ calls[1].retNext # calls[1].cursor
    /\ calls[2].retNext # calls[2].cursor
    /\ calls[2].status = "ok"

\* C12: between a Fetch that returned an empty batch and the next Fetch the
\* whole IdleSleep has passed: Run is back at the loop top, or has a new Fetch
\* in flight, only with the idle timer run out.
C12_IdleWaitBeforeNextFetch ==
    /\ (/\ pc \in {"top", "limit"}
        /\ Len(calls) >= 1
        /\ calls[Len(calls)].op = "Fetch") => elapsed >= idleSleep
    /\ (/\ Len(calls) >= 2
        /\ calls[Len(calls)].op = "Fetch"
        /\ calls[Len(calls)].status = "inflight"
        /\ calls[Len(calls) - 1].op = "Fetch") => elapsed >= idleSleep

\* a second Fetch is in flight after an empty one, the default 200ms waited
C12_Witness ==
    /\ Len(calls) = 2
    /\ calls[1].op = "Fetch"
    /\ calls[2].op = "Fetch"
    /\ calls[2].status = "inflight"
    /\ r.IdleSleep = 0
    /\ elapsed >= 200

\* C13: with MaxBatches = N > 0, a context that stays active, no error and no
\* empty batch, Run never makes more than N Fetch calls, and when it returns
\* it has made exactly N Fetch, N Apply and N Commit calls and returns nil.
C13_CapStopsAfterN ==
    LET fetches == SelectSeq(calls, LAMBDA c : c.op = "Fetch")
        commits == SelectSeq(calls, LAMBDA c : c.op = "Commit")
    IN  (/\ r.MaxBatches > 0
         /\ ctx = "active"
         /\ \A k \in 1..Len(calls) :
               /\ calls[k].status # "err"
               /\ (calls[k].op = "Fetch" /\ calls[k].status = "ok") =>
                      calls[k].retBatch # <<>>) =>
            /\ Len(fetches) <= r.MaxBatches
            /\ pc = "done" =>
                  /\ result = Nil
                  /\ Len(fetches) = r.MaxBatches
                  /\ Len(Applied) = r.MaxBatches
                  /\ Len(commits) = r.MaxBatches

\* Run returned nil after two batches with MaxBatches = 2
C13_Witness ==
    /\ pc = "done"
    /\ r.MaxBatches = 2
    /\ ctx = "active"
    /\ result = Nil
    /\ Len(calls) = 6

\* C14: Run returns nil only through the MaxBatches check: then MaxBatches > 0
\* and exactly MaxBatches non-empty batches were fetched, applied and
\* committed; with MaxBatches <= 0 Run never returns nil.
C14_NilOnlyAtCap ==
    (pc = "done" /\ result = Nil) =>
        /\ r.MaxBatches > 0
        /\ exit = "maxBatches"
        /\ batchCount = r.MaxBatches
        /\ Len(Delivered) = r.MaxBatches
        /\ Len(Succeeded("Apply")) = r.MaxBatches
        /\ Len(Succeeded("Commit")) = r.MaxBatches

\* Run returned nil at MaxBatches = 2 after an empty poll among the batches
C14_Witness ==
    /\ pc = "done"
    /\ result = Nil
    /\ r.MaxBatches = 2
    /\ Len(calls) = 7

\* C15: the first call of a Run is a Fetch with Start, and every Fetch is made
\* with the nextCursor of the last batch before it whose Commit succeeded
\* (Start when there is none).
C15_FetchCursor ==
    /\ Len(calls) >= 1 => (calls[1].op = "Fetch" /\ calls[1].cursor = r.Start)
    /\ \A k \in 1..Len(calls) :
          calls[k].op = "Fetch" =>
              LET done == {j \in 1..(k-1) :
                              calls[j].op = "Commit" /\ calls[j].status = "ok"}
              IN  calls[k].cursor =
                      IF done = {} THEN r.Start ELSE calls[Last(done) - 2].retNext

\* Start is "c1"; a batch was committed with nextCursor "" and the following
\* Fetch asked for what follows ""
C15_Witness ==
    /\ r.Start = "c1"
    /\ Len(calls) >= 4
    /\ calls[1].cursor = "c1"
    /\ calls[3].op = "Commit"
    /\ calls[4].op = "Fetch"
    /\ calls[4].cursor = ""

\* C16: every Commit call comes right after the Apply call of the same batch,
\* which returned success, and is made with the cursor that Apply was given.
C16_CommitAfterApply ==
    \A k \in 1..Len(calls) :
        calls[k].op = "Commit" =>
            /\ k > 1
            /\ calls[k-1].op = "Apply"
            /\ calls[k-1].status = "ok"
            /\ calls[k].cursor = calls[k-1].cursor

\* a batch fetched from "" was committed at "c1"
C16_Witness ==
    \E k \in 1..Len(calls) :
        /\ calls[k].op = "Commit"
        /\ calls[k].status = "ok"
        /\ calls[k].cursor = "c1"
        /\ calls[k-2].cursor = ""

Among(ev, evs) == \E j \in 1..Len(evs) : evs[j] = ev

\* C19: in the restart scenario, every event of the stream positioned at or
\* before the saved checkpoint is among the events handed to an Apply call
\* that succeeded: across failures and restarts no event is passed over.
C19_NoEventSkipped ==
    \A i \in 1..Pos(LoadCursor(db)) : Among(Event(i), db.applied)

\* a second Run, started from a reloaded checkpoint after the first Run
\* failed, has brought the checkpoint to the end of the stream
C19_Witness ==
    /\ runs = 2
    /\ prev.how = "reload"
    /\ prev.exit \in {"fetchErr", "applyErr", "commitErr"}
    /\ r.Start = "c1"
    /\ db.checkpoint = CursorAt(StreamLen)
    /\ Len(db.applied) = StreamLen

\* C20 as stated: the Run that follows a Run ended by a Commit error begins at
\* (or before) the cursor the failed batch was fetched with, so that the batch
\* comes again.
C20_RefetchedAfterCommitError ==
    (runs >= 2 /\ prev.exit = "commitErr" /\ Len(calls) >= 1) =>
        Pos(calls[1].cursor) <= Pos(prev.cursor)

\* C20 amended: after a Run ended by a Commit error, a Run started from the
\* reloaded checkpoint starts at the failed batch's nextCursor, which Apply had
\* saved, and neither fetches from before it nor applies an event of that
\* batch again; a Run started again with the same Start begins at or before
\* the cursor the failed batch was fetched with, and when that cursor is Start
\* the first batch delivered begins with the failed batch's first event.
C20_AfterCommitError ==
    (runs >= 2 /\ prev.exit = "commitErr") =>
        /\ prev.how = "reload" =>
              /\ r.Start = prev.next
              /\ \A k \in 1..Len(calls) :
                    /\ calls[k].op = "Fetch" => Pos(calls[k].cursor) >= Pos(prev.next)
                    /\ \A j \in 1..Len(prev.batch) : ~Among(prev.batch[j], calls[k].batch)
        /\ prev.how = "same" =>
              /\ Pos(r.Start) <= Pos(prev.cursor)
              /\ Len(calls) >= 1 => calls[1].cursor = r.Start
              /\ (r.Start = prev.cursor /\ Len(calls) >= 2 /\ calls[2].op = "Apply") =>
                    calls[2].batch[1] = prev.batch[1]

\* the first Run failed in Commit on the batch e1, e2; the second Run, started
\* from the reloaded checkpoint c2, was handed e3 and nothing of that batch
C20_Witness ==
    /\ runs = 2
    /\ prev.exit = "commitErr"
    /\ prev.how = "reload"
    /\ prev.batch = <<"e1", "e2">>
    /\ Len(calls) >= 2
    /\ calls[1].cursor = "c2"
    /\ calls[2].op = "Apply"
    /\ calls[2].batch = <<"e3">>

\* C21: when the Run before this one ended with an Apply error and every Run
\* was started from the caller's checkpoint (the cursor saved by the last
\* successful Apply, the original Start when there is none), the first Fetch
\* of this Run is made with the cursor the failed Run fetched the failing
\* batch with.
C21_RefetchAfterApplyError ==
    (runs >= 2 /\ prev.exit = "applyErr" /\ prev.fromCheckpoint) =>
        /\ r.Start = prev.cursor
        /\ Len(calls) >= 1 =>
              /\ calls[1].op = "Fetch"
              /\ calls[1].cursor = prev.cursor

\* the first Run committed e1 and failed in Apply on a batch fetched from c1;
\* the second Run, started from the reloaded checkpoint, fetched from c1 and
\* was handed the same events again
C21_Witness ==
    /\ runs = 2
    /\ prev.exit = "applyErr"
    /\ prev.how = "reload"
    /\ prev.fromCheckpoint
    /\ prev.cursor = "c1"
    /\ prev.batch = <<"e2", "e3">>
    /\ Len(calls) >= 1
    /\ calls[1].cursor = "c1"
    /\ calls[1].retBatch = <<"e2", "e3">>

\* C22: when every Run was started from the caller's checkpoint, no event is
\* applied twice: no event is saved more than once by successful Apply calls,
\* and an Apply call that is in flight or failed holds no event that a
\* successful Apply, of this Run or of an earlier one, already saved.
C22_NoReapply ==
    prev.fromCheckpoint =>
        /\ \A i, j \in 1..Len(db.applied) : db.applied[i] = db.applied[j] => i = j
        /\ \A k \in 1..Len(calls) :
              (calls[k].op = "Apply" /\ calls[k].status # "ok") =>
                  \A j \in 1..Len(calls[k].batch) : ~Among(calls[k].batch[j], db.applied)

\* the first Run applied e1 and e2 and stopped; the second Run, started from
\* the reloaded checkpoint c2, applied e3 alone
C22_Witness ==
    /\ runs = 2
    /\ prev.fromCheckpoint
    /\ prev.how = "reload"
    /\ r.Start = "c2"
    /\ \E k \in 1..Len(calls) :
          calls[k].op = "Apply" /\ calls[k].status = "ok" /\ calls[k].batch = <<"e3">>
    /\ db.applied = <<"e1", "e2", "e3">>

\* the position Run is at while the call op is in flight
PcOf(op) == IF op = "Fetch" THEN "fetch" ELSE IF op = "Apply" THEN "apply" ELSE "commit"

\* C23: within one Run at most one call is in flight, and it is the last one
\* made: a call starts only after the one before it returned.  The trace has
\* the shape (Fetch-empty, idle wait)* Fetch-nonempty, Apply, Commit,
\* repeated: it begins with a Fetch, an Apply follows a Fetch that delivered
\* events, a Commit follows an Apply that succeeded, a further Fetch follows
\* an empty Fetch (after the idle wait) or a Commit that succeeded.
C23_Sequential ==
    /\ \A k \in 1..Len(calls) :
          /\ k < Len(calls) => calls[k].status # "inflight"
          /\ calls[k].status = "inflight" => pc = PcOf(calls[k].op)
          /\ k = 1 => calls[k].op = "Fetch"
          /\ k > 1 =>
                LET p == calls[k-1] IN
                /\ calls[k].op = "Apply" =>
                      p.op = "Fetch" /\ p.status = "ok" /\ p.retBatch # <<>>
                /\ calls[k].op = "Commit" => p.op = "Apply" /\ p.status = "ok"
                /\ calls[k].op = "Fetch" =>
                      \/ p.op = "Fetch" /\ p.status = "ok" /\ p.retBatch = <<>>
                      \/ p.op = "Commit" /\ p.status = "ok"
    /\ pc \in {"fetch", "apply", "commit"} =>
          /\ Len(calls) >= 1
          /\ calls[Len(calls)].status = "inflight"
          /\ pc = PcOf(calls[Len(calls)].op)
    /\ pc = "sleep" =>
          /\ Len(calls) >= 1
          /\ calls[Len(calls)].op = "Fetch"
          /\ calls[Len(calls)].status = "ok"
          /\ calls[Len(calls)].retBatch = <<>>

\* an empty Fetch, then a Fetch that delivered, its Apply and its Commit, and
\* a third Fetch in flight
C23_Witness ==
    /\ Len(calls) = 5
    /\ calls[1].op = "Fetch" /\ calls[1].retBatch = <<>>
    /\ calls[2].op = "Fetch" /\ calls[2].retBatch # <<>>
    /\ calls[3].op = "Apply"
    /\ calls[4].op = "Commit"
    /\ calls[5].op = "Fetch" /\ calls[5].status = "inflight"

\* ------------------------------------------- two invocations of one Runner
\* what a call was made with
Args(c) == <<c.op, c.cursor, c.limit, c.batch>>

\* the invocation inv is where a Run alone would be after the calls inv made:
\* its counter is the number of its own batches committed, its cursor is the
\* cursor of its own last committed batch (Start before any), each of its Fetch
\* calls asked for what follows its own batches committed before, and a stop
\* at the cap comes with its own counter at the cap
AsAlone(inv) ==
    LET cs == inv.calls
        Done(k) == {j \in 1..k : cs[j].op = "Commit" /\ cs[j].status = "ok"}
        At(k) == IF Done(k) = {} THEN r.Start ELSE cs[Last(Done(k))].cursor
    IN  /\ inv.pc # "init" =>
              /\ inv.batchCount = Cardinality(Done(Len(cs)))
              /\ inv.cursor = At(Len(cs))
        /\ \A k \in 1..Len(cs) :
              cs[k].op = "Fetch" =>
                  /\ cs[k].cursor = At(k)
                  /\ cs[k].limit = EffectiveBatchSize
        /\ inv.exit = "maxBatches" =>
              /\ inv.result = Nil
              /\ Cardinality(Done(Len(cs))) = r.MaxBatches

\* C24: two invocations of Run on the same Runner, interleaved in any way
\* over a read-only source, each stay where a Run alone would be (own cursor,
\* own counter, own result), and they make the same calls: as far as both
\* have come, the k-th call of one has the arguments of the k-th call of the
\* other, and both were handed the same batch and cursor by Fetch.
C24_Uncoordinated ==
    /\ AsAlone(Parked)
    /\ AsAlone(other)
    /\ \A k \in 1..Len(calls) :
          k <= Len(other.calls) =>
              /\ Args(calls[k]) = Args(other.calls[k])
              /\ (calls[k].op = "Fetch" /\ calls[k].status = "ok"
                    /\ other.calls[k].status = "ok") =>
                    /\ calls[k].retBatch = other.calls[k].retBatch
                    /\ calls[k].retNext = other.calls[k].retNext

\* both invocations are under way at once: one has committed the batch e1, e2
\* and fetches from c2 while the other is still in its Apply of that batch
C24_Witness ==
    /\ pc = "fetch"
    /\ batchCount = 1
    /\ cursor = "c2"
    /\ calls[2].op = "Apply"
    /\ calls[2].batch = <<"e1", "e2">>
    /\ other.pc = "apply"
    /\ other.batchCount = 0
    /\ other.calls[2].batch = <<"e1", "e2">>

\* C25: Run leaves the Runner as it was: no step of Run changes a field of r,
\* and the caller calling Run again on the same Runner passes the same r.  So
\* a second Run on the same Runner makes its first Fetch with Start, however
\* far the first Run came, and counts the batches it processed itself from
\* zero (its stop at the cap comes after MaxBatches batches of its own).
C25_ConfigUnchanged ==
    /\ [][(runs' = runs \/ prev'.how = "same") => r' = r]_vars
    /\ [](  (runs >= 2 /\ prev.how = "same") =>
              LET own == Len(SelectSeq(calls,
                            LAMBDA c : c.op = "Commit" /\ c.status = "ok")) IN
              /\ Len(calls) >= 1 =>
                    /\ calls[1].op = "Fetch"
                    /\ calls[1].cursor = r.Start
              /\ pc # "init" => batchCount = own
              /\ exit = "maxBatches" => own = r.MaxBatches)

\* the first Run stopped at the cap with its cursor moved on from Start; the
\* second Run on the same Runner fetched from Start and stopped at the cap
\* after one batch of its own
C25_Witness ==
    /\ runs = 2
    /\ prev.how = "same"
    /\ prev.exit = "maxBatches"
    /\ prev.cursor # r.Start
    /\ Len(calls) >= 1
    /\ calls[1].cursor = r.Start
    /\ exit = "maxBatches"
    /\ batchCount = 1

\* C26: with MaxBatches unset (0) and no error from Fetch, Apply or Commit,
\* Run does not return on its own: as long as the context is active Run has
\* not returned, and when it has returned the context was cancelled or timed
\* out and Run returned the context's error.
C26_RunsUntilCancelled ==
    (r.MaxBatches = 0 /\ \A k \in 1..Len(calls) : calls[k].status # "err") =>
        /\ ctx = "active" => (pc # "done" /\ exit = "none")
        /\ pc = "done" =>
              /\ CtxDone(ctx)
              /\ exit \in {"ctxTop", "ctxIdle"}
              /\ result = CtxErr(ctx)
              /\ result # Nil

\* with no cap, Run processed the one batch there was, polled twice more
\* without finding anything, and returned when the deadline passed in the
\* idle wait
C26_Witness ==
    /\ r.MaxBatches = 0
    /\ pc = "done"
    /\ batchCount = 1
    /\ Len(calls) = 5
    /\ calls[4].op = "Fetch" /\ calls[4].retBatch = <<>>
    /\ calls[5].op = "Fetch" /\ calls[5].retBatch = <<>> /\ calls[5].status = "ok"
    /\ exit = "ctxIdle"
    /\ result = "DeadlineExceeded"

\* C27 as stated: with a Logger set, by the time of the first Fetch the Logger
\* has received an entry whose message is "worker starting".
C27_WorkerStartingLogged ==
    (r.Logger /\ Len(calls) >= 1) =>
        \E i \in 1..Len(logs) : logs[i].msg = "worker starting"

\* ------------------------------------------- with and without a Logger
\* what a call returned
Returned(c) == <<c.status, c.err, c.retBatch, c.retNext>>

\* C28: of two Runs of the same Runner, one with a Logger and one with Logger
\* nil: the Run without Logger calls no Logger, the Run with a Logger has
\* logged once it has started; as long as their calls returned the same, both
\* make the same next call with the same arguments; and when both have
\* returned after the same calls with the same returns, having seen the same
\* context at the same checks, they returned the same result.
C28_LoggerObservational ==
    LET with == IF r.Logger THEN Parked ELSE other
        without == IF r.Logger THEN other ELSE Parked
        A == with.calls
        B == without.calls
    IN  /\ without.logs = <<>>
        /\ with.pc # "init" => with.logs # <<>>
        /\ \A k \in 1..Len(A) :
              (/\ k <= Len(B)
               /\ \A j \in 1..(k-1) : Returned(A[j]) = Returned(B[j])) =>
                  Args(A[k]) = Args(B[k])
        /\ (/\ with.pc = "done" /\ without.pc = "done"
            /\ Len(A) = Len(B)
            /\ \A j \in 1..Len(A) : Returned(A[j]) = Returned(B[j])
            /\ with.exit = without.exit
            /\ with.ctx = without.ctx) =>
               with.result = without.result

\* both Runs processed the batch e1, e2 and then failed in Fetch with the same
\* error; the one logged every step, the other nothing
C28_Witness ==
    /\ pc = "done" /\ other.pc = "done"
    /\ exit = "fetchErr" /\ other.exit = "fetchErr"
    /\ result = "E2" /\ other.result = "E2"
    /\ Len(calls) = 4 /\ Len(other.calls) = 4
    /\ calls[2].batch = <<"e1", "e2">> /\ other.calls[2].batch = <<"e1", "e2">>
    /\ r.Logger
    /\ Len(logs) >= 5
    /\ other.logs = <<>>

\* C29: in one Run against a source that keeps the Fetch contract, the batches
\* passed to Apply, one after the other, are the events of the stream from
\* the one right after Start on, in stream order, none left out and none
\* twice: each batch begins right after the one before it (the first right
\* after Start) and its cursor is the position after its last event.
C29_ContiguousSegment ==
    LET A == Applied IN
    \A i \in 1..Len(A) :
        LET from == IF i = 1 THEN Pos(r.Start) ELSE Pos(A[i-1].cursor) IN
        /\ A[i].batch = [j \in 1..Len(A[i].batch) |-> Event(from + j)]
        /\ Pos(A[i].cursor) = from + Len(A[i].batch)

\* a Run started from c1 applied e2 and then e3
C29_Witness ==
    /\ r.Start = "c1"
    /\ Len(Applied) = 2
    /\ Applied[1].batch = <<"e2">>
    /\ Applied[2].batch = <<"e3">>
    /\ Applied[2].status = "ok"

\* C30: when a Fetch, Apply or Commit call has returned an error and the
\* context is cancelled or timed out by then, Run has returned that call's
\* error as it is, through the return of that operation, not the context's
\* error.
C30_OperationErrorAfterCancel ==
    \A k \in 1..Len(calls) :
        (calls[k].status = "err" /\ CtxDone(ctx)) =>
            /\ k = Len(calls)
            /\ pc = "done"
            /\ exit = (IF calls[k].op = "Fetch" THEN "fetchErr"
                       ELSE IF calls[k].op = "Apply" THEN "applyErr"
                       ELSE "commitErr")
            /\ result = calls[k].err
            /\ result # CtxErr(ctx)

\* the context was cancelled while Apply was running, Apply then failed with
\* E1 and Run returned E1
C30_Witness ==
    /\ ctx = "canceled"
    /\ Len(calls) >= 2
    /\ calls[Len(calls)].op = "Apply"
    /\ calls[Len(calls)].ctxAtStart = "active"
    /\ calls[Len(calls)].err = "E1"
    /\ result = "E1"

\* C31: the context is looked at before the cap: when Run is at the loop top
\* with the cap reached (MaxBatches batches committed) and the context
\* cancelled or timed out, the step it takes is the return of the context's
\* error, never the return of nil.
C31_CancelBeforeCap ==
    [][(/\ pc = "top"
        /\ CtxDone(ctx)
        /\ r.MaxBatches > 0
        /\ batchCount >= r.MaxBatches) =>
           /\ pc' = "done"
           /\ exit' = "ctxTop"
           /\ result' = CtxErr(ctx)
           /\ result' # Nil
           /\ calls' = calls]_vars

\* two batches were committed with MaxBatches = 2, the context was cancelled
\* during the second Commit, and Run returned Canceled
C31_Witness ==
    /\ pc = "done"
    /\ r.MaxBatches = 2
    /\ batchCount = 2
    /\ Len(calls) = 6
    /\ calls[6].ctxAtStart = "active"
    /\ calls[6].status = "ok"
    /\ exit = "ctxTop"
    /\ result = "Canceled"

\* C32: the context is looked at only at the loop top and in the idle wait.
\* Of the calls started with the context already cancelled or timed out there
\* is at most one Fetch, one Apply and one Commit; a batch delivered by Fetch
\* is passed to Apply, and a batch applied is committed, although the context
\* was cancelled in between; and a Run that returned the context's error left
\* through one of the two checks.
C32_CancelSeenAtTopAndIdle ==
    /\ LET late == SelectSeq(calls, LAMBDA c : c.ctxAtStart # "active") IN
       /\ Len(late) <= 3
       /\ \A j, k \in 1..Len(late) : late[j].op = late[k].op => j = k
    /\ \A k \in 1..Len(calls) :
          /\ (calls[k].op = "Fetch" /\ calls[k].status = "ok" /\ calls[k].retBatch # <<>>) =>
                (k < Len(calls) /\ calls[k+1].op = "Apply")
          /\ (calls[k].op = "Apply" /\ calls[k].status = "ok") =>
                (k < Len(calls) /\ calls[k+1].op = "Commit")
    /\ (pc = "done" /\ result \in {"Canceled", "DeadlineExceeded"}) =>
          /\ exit \in {"ctxTop", "ctxIdle"}
          /\ CtxDone(ctx)

\* the deadline passed while the first Fetch was in flight; its batch was
\* still applied and committed, and Run then returned DeadlineExceeded
C32_Witness ==
    /\ pc = "done"
    /\ Len(calls) = 3
    /\ calls[1].ctxAtStart = "active"
    /\ calls[2].op = "Apply" /\ calls[2].ctxAtStart = "expired" /\ calls[2].status = "ok"
    /\ calls[3].op = "Commit" /\ calls[3].ctxAtStart = "expired" /\ calls[3].status = "ok"
    /\ result = "DeadlineExceeded"

\* ------------------------------------------------------------- progress
\* C33: once the context is cancelled or timed out, Run returns: with every
\* call in flight returning and the select taking a ready branch, Run can
\* neither go on looping nor stay in the idle wait.
C33_ReturnsAfterCancel == CtxDone(ctx) ~> pc = "done"

\* the context was cancelled while Apply was in flight; Apply and Commit
\* returned and Run then returned at the loop top
C33_Witness ==
    /\ pc = "done"
    /\ ctx = "canceled"
    /\ exit = "ctxTop"
    /\ Len(calls) >= 3
    /\ calls[Len(calls)].op = "Commit"
    /\ calls[Len(calls)].ctxAtStart = "canceled"
    /\ calls[Len(calls) - 1].ctxAtStart = "active"

\* C34: at the end of an idle wait with the timer run out and the context
\* cancelled or timed out, both branches of the select can be taken; the
\* context branch returns the context's error, the timer branch leads to the
\* loop top, and the step taken there is the return of the context's error:
\* in neither case is another call made.
C34_TimerAndCancelBothPending ==
    /\ []((pc = "sleep" /\ elapsed >= idleSleep /\ CtxDone(ctx)) =>
             /\ ENABLED (IdleCtxDone /\ UNCHANGED env)
             /\ ENABLED (IdleTimer /\ UNCHANGED env))
    /\ [][(pc = "sleep" /\ elapsed >= idleSleep /\ CtxDone(ctx)) =>
             /\ calls' = calls
             /\ ctx' = ctx
             /\ \/ pc' = "done" /\ exit' = "ctxIdle" /\ result' = CtxErr(ctx)
                \/ pc' = "top"]_vars
    /\ [][(pc = "top" /\ CtxDone(ctx)) =>
             /\ calls' = calls
             /\ pc' = "done"
             /\ exit' = "ctxTop"
             /\ result' = CtxErr(ctx)
             /\ result' # Nil]_vars

\* the context was cancelled during an idle wait that ran to its end, the
\* timer branch was taken, and Run returned Canceled at the loop top without
\* another Fetch
C34_Witness ==
    /\ pc = "done"
    /\ exit = "ctxTop"
    /\ result = "Canceled"
    /\ Len(calls) >= 1
    /\ calls[Len(calls)].op = "Fetch"
    /\ calls[Len(calls)].status = "ok"
    /\ calls[Len(calls)].retBatch = <<>>
    /\ calls[Len(calls)].ctxAtStart = "active"
    /\ elapsed >= idleSleep

\* all the polls explored have returned and fewer than MaxBatches of them
\* delivered a batch
OutOfPolls ==
    /\ Len(SelectSeq(calls, LAMBDA c : c.op = "Fetch" /\ c.status # "inflight")) >= MaxIters
    /\ Len(Delivered) < r.MaxBatches

\* C35: with MaxBatches = N > 0, Run returns nil at the cap sooner or later,
\* unless the context is cancelled or times out, a call returns an error, or
\* the source has not delivered N batches in the polls explored: empty polls
\* in between do not keep Run from getting there.
C35_ReachesCap ==
    (r.MaxBatches > 0) =>
        <>(\/ pc = "done" /\ exit = "maxBatches" /\ result = Nil
           \/ CtxDone(ctx)
           \/ \E k \in 1..Len(calls) : calls[k].status = "err"
           \/ OutOfPolls)

\* Run returned nil at MaxBatches = 2 although its first poll was empty and
\* it had to wait the default idle sleep out
C35_Witness ==
    /\ pc = "done"
    /\ ctx = "active"
    /\ result = Nil
    /\ r.MaxBatches = 2
    /\ r.IdleSleep = 0
    /\ Len(calls) = 7
    /\ calls[1].retBatch = <<>>
    /\ calls[1].status = "ok"

\* ------------------------------------------------- the counter and the log
\* C36: polls that found nothing are not counted.  A Run that stopped at the
\* cap has had exactly MaxBatches batches delivered, applied and committed,
\* however many empty polls lay in between; the counter is at every moment
\* the number of batches committed, whatever the number of polls; and as long
\* as every poll came back empty the counter is 0 and Run has not stopped at
\* the cap.
C36_EmptyPollsNotCounted ==
    LET polls == SelectSeq(calls, LAMBDA c : c.op = "Fetch" /\ c.status = "ok")
        committed == Len(Succeeded("Commit"))
    IN  /\ pc # "init" => batchCount = committed
        /\ committed <= Len(Delivered)
        /\ exit = "maxBatches" =>
              /\ result = Nil
              /\ Len(Delivered) = r.MaxBatches
              /\ Len(Applied) = r.MaxBatches
              /\ committed = r.MaxBatches
              /\ Len(polls) >= r.MaxBatches
        /\ Len(Delivered) = 0 =>
              /\ batchCount = 0
              /\ exit # "maxBatches"

\* with MaxBatches = 1, Run polled twice without finding anything, then
\* processed one batch and stopped at the cap
C36_Witness ==
    /\ exit = "maxBatches"
    /\ r.MaxBatches = 1
    /\ Len(calls) = 5
    /\ calls[1].retBatch = <<>>
    /\ calls[2].retBatch = <<>>
    /\ calls[3].retBatch # <<>>
    /\ batchCount = 1

\* C37: Apply and Commit are never called for an empty batch: every Apply
\* call holds at least one event and every Commit call follows such an Apply;
\* after a Fetch that returned an empty batch comes the idle wait, and then
\* the loop top: the next call, if any, is a Fetch, and a Run that returns
\* with no further call returns through one of the context checks.
C37_NothingForEmptyBatch ==
    \A k \in 1..Len(calls) :
        /\ calls[k].op = "Apply" => Len(calls[k].batch) >= 1
        /\ calls[k].op = "Commit" =>
              (k > 1 /\ calls[k-1].op = "Apply" /\ Len(calls[k-1].batch) >= 1)
        /\ (calls[k].op = "Fetch" /\ calls[k].status = "ok" /\ calls[k].retBatch = <<>>) =>
              IF k < Len(calls)
              THEN calls[k+1].op = "Fetch"
              ELSE /\ pc \in {"sleep", "top", "limit", "done"}
                   /\ pc = "done" => exit \in {"ctxTop", "ctxIdle"}

\* an empty poll was followed by the idle wait and a second poll, whose batch
\* of two events went to Apply
C37_Witness ==
    /\ Len(calls) >= 3
    /\ calls[1].op = "Fetch" /\ calls[1].status = "ok" /\ calls[1].retBatch = <<>>
    /\ calls[2].op = "Fetch"
    /\ calls[3].op = "Apply" /\ Len(calls[3].batch) = 2

\* C38: at the loop top the counter is the number of Commit calls that
\* succeeded in this Run, which is the number of Apply calls that succeeded,
\* and with MaxBatches > 0 it is not above MaxBatches.
C38_CounterAtLoopTop ==
    pc = "top" =>
        /\ batchCount = Len(Succeeded("Commit"))
        /\ batchCount = Len(Succeeded("Apply"))
        /\ r.MaxBatches > 0 => batchCount <= r.MaxBatches

\* Run is back at the loop top after its second batch, of two events, with
\* the counter at 2 and the cap at 2
C38_Witness ==
    /\ pc = "top"
    /\ batchCount = 2
    /\ r.MaxBatches = 2
    /\ Len(batch) = 2
    /\ Len(Succeeded("Commit")) = 2

\* the message logged on the way out through each return statement
ExitMessage(x) ==
    IF x = "fetchErr" THEN "fetch error"
    ELSE IF x = "applyErr" THEN "apply error"
    ELSE IF x = "commitErr" THEN "commit error"
    ELSE IF x = "maxBatches" THEN "runner stopped after reaching MaxBatches"
    ELSE IF x = "ctxTop" THEN "runner stopped due to context cancellation"
    ELSE "runner stopped due to context cancellation during idle sleep"

ExitMessages ==
    {ExitMessage(x) : x \in {"fetchErr", "applyErr", "commitErr", "maxBatches",
                             "ctxTop", "ctxIdle"}}

\* C39: with a Logger set, a Run that has returned logged the cause of its
\* return last and once: the last entry carries the message of the return
\* statement taken (with the error returned, for an operation's error), no
\* other entry carries such a message, and the log holds one entry for the
\* start and one for each call that returned besides it, so that no call lies
\* between that entry and the return.
C39_ExitLogged ==
    (r.Logger /\ pc = "done") =>
        LET returned == Len(SelectSeq(calls, LAMBDA c : c.status # "inflight"))
            own == IF exit \in {"maxBatches", "ctxTop", "ctxIdle"} THEN 1 ELSE 0
        IN  /\ logs # <<>>
            /\ logs[Len(logs)].msg = ExitMessage(exit)
            /\ \A i \in 1..(Len(logs) - 1) : logs[i].msg \notin ExitMessages
            /\ exit \in {"fetchErr", "applyErr", "commitErr"} =>
                  /\ logs[Len(logs)].kv[1] = "error"
                  /\ logs[Len(logs)].kv[2] = result
            /\ Len(logs) = 1 + returned + own
            /\ returned = Len(calls)

\* with a Logger set, Run processed a batch and then returned from the idle
\* wait on a cancellation, which is the last of its six log entries
C39_Witness ==
    /\ r.Logger
    /\ pc = "done"
    /\ exit = "ctxIdle"
    /\ batchCount = 1
    /\ Len(logs) = 6
    /\ logs[6].msg = "runner stopped due to context cancellation during idle sleep"

====
